---- MODULE Spec2Model ----
(***************************************************************************)
(* Model of src/src/App.tsx: the email metrics dashboard component.        *)
(*                                                                         *)
(* State is the component's React state (useState hooks), the alert modal  *)
(* in the DOM and the insight requests awaiting their response.  Every     *)
(* action is one event handler or callback, taken together with the        *)
(* applyFilters effect React runs right after it when emailData or a       *)
(* filter input changed.                                                   *)
(*                                                                         *)
(* Text is a sequence of one-character strings, so that parseInt,          *)
(* parseFloat, toLowerCase and includes are computed on the characters.    *)
(* Numbers are kept in tenths (25.5 is 255); the texts drawn as inputs     *)
(* have at most one fractional digit and no exponent.                      *)
(***************************************************************************)
EXTENDS Integers, Sequences, FiniteSets, TLC

VARIABLES
    isPapaParseLoaded,  \* useState(false), line 25
    scriptPending,      \* the PapaParse <script> element is loading, lines 72-86
    emailData,          \* useState([]), line 6
    uploads,            \* number of datasets created so far (identity of row objects)
    filteredEmailData,  \* useState([]), line 8
    searchTerm,         \* useState(""), line 10
    minOpenRate,        \* useState(""), line 12
    maxOpenRate,        \* line 13
    minClickRate,       \* line 15
    maxClickRate,       \* line 16
    selectedEmail,      \* useState(null), line 19: a reference to a row object
    aiInsight,          \* useState(""), line 21
    loadingInsight,     \* useState(false), line 23
    alert,              \* message of the customAlertModal, "" when none is shown
    parsing,            \* files handed to Papa.parse whose callback has not run yet
    inflight            \* getAiInsights calls suspended at an await, lines 258-263

vars == <<isPapaParseLoaded, scriptPending, emailData, uploads,
          filteredEmailData, searchTerm, minOpenRate, maxOpenRate,
          minClickRate, maxClickRate, selectedEmail, aiInsight,
          loadingInsight, alert, parsing, inflight>>

criteria == <<searchTerm, minOpenRate, maxOpenRate, minClickRate, maxClickRate>>

-----------------------------------------------------------------------------
(* Bounds *)

MaxUploads == 2     \* datasets created in one behaviour
MaxInflight == 1    \* insight requests outstanding at once under SpecApi
MaxParsing == 1     \* files being parsed at once
MaxCols == 2        \* columns of the one-row files of SpecIngest

-----------------------------------------------------------------------------
(* Values of a row's fields: text, a number (in tenths) or NaN *)

Str(s) == [t |-> "str", s |-> s, n |-> 0]
Num(n) == [t |-> "num", s |-> <<>>, n |-> n]
NaN == [t |-> "nan", s |-> <<>>, n |-> 0]

Digits == {"0", "1", "2", "3", "4", "5", "6", "7", "8", "9"}

DigitVal(c) ==
    CASE c = "0" -> 0 [] c = "1" -> 1 [] c = "2" -> 2 [] c = "3" -> 3
      [] c = "4" -> 4 [] c = "5" -> 5 [] c = "6" -> 6 [] c = "7" -> 7
      [] c = "8" -> 8 [] c = "9" -> 9

RECURSIVE SkipWs(_, _)
SkipWs(s, i) ==
    IF i <= Len(s) /\ s[i] = " " THEN SkipWs(s, i + 1) ELSE i

RECURSIVE DigitRun(_, _)
DigitRun(s, i) ==
    IF i <= Len(s) /\ s[i] \in Digits THEN 1 + DigitRun(s, i + 1) ELSE 0

RECURSIVE DigitsVal(_, _, _)
DigitsVal(s, i, n) ==
    IF n = 0 THEN 0
    ELSE DigitsVal(s, i, n - 1) * 10 + DigitVal(s[i + n - 1])

\* parseInt(text): leading blanks, a sign, then the longest run of digits;
\* NaN when there is no digit.
parseInt(s) ==
    LET i0 == SkipWs(s, 1)
        signed == i0 <= Len(s) /\ s[i0] \in {"-", "+"}
        neg == i0 <= Len(s) /\ s[i0] = "-"
        i1 == IF signed THEN i0 + 1 ELSE i0
        nInt == DigitRun(s, i1)
        mag == DigitsVal(s, i1, nInt) * 10
    IN  IF nInt = 0 THEN NaN ELSE Num(IF neg THEN 0 - mag ELSE mag)

\* parseFloat(text): leading blanks, a sign, digits, a point, digits; NaN
\* when there is no digit on either side of the point.
parseFloat(s) ==
    LET i0 == SkipWs(s, 1)
        signed == i0 <= Len(s) /\ s[i0] \in {"-", "+"}
        neg == i0 <= Len(s) /\ s[i0] = "-"
        i1 == IF signed THEN i0 + 1 ELSE i0
        nInt == DigitRun(s, i1)
        i2 == i1 + nInt
        hasDot == i2 <= Len(s) /\ s[i2] = "."
        nFrac == IF hasDot THEN DigitRun(s, i2 + 1) ELSE 0
        mag == DigitsVal(s, i1, nInt) * 10
                 + (IF nFrac > 0 THEN DigitVal(s[i2 + 1]) ELSE 0)
    IN  IF nInt + nFrac = 0 THEN NaN ELSE Num(IF neg THEN 0 - mag ELSE mag)

isNaN(v) == v.t = "nan"

\* a >= b and a <= b on numbers: false as soon as one side is NaN
Gte(a, b) == a.t = "num" /\ b.t = "num" /\ a.n >= b.n
Lte(a, b) == a.t = "num" /\ b.t = "num" /\ a.n <= b.n

toLowerCase1(c) ==
    CASE c = "P" -> "p" [] c = "R" -> "r" [] c = "N" -> "n" [] OTHER -> c

toLowerCase(s) == [i \in 1..Len(s) |-> toLowerCase1(s[i])]

\* s.includes(t)
includes(s, t) ==
    \E i \in 0..(Len(s) - Len(t)) : SubSeq(s, i + 1, i + Len(t)) = t

-----------------------------------------------------------------------------
(* Ingestion: the complete callback of Papa.parse, lines 127-150 *)

IntFields == {"Sent", "Delivered"}
FloatFields == {"Open Rate", "Click Rate", "Hard Bounce Rate",
                "Unsubscribe Rate", "Bounce Rate", "Spam Rate",
                "Delivery Rate"}
MetricFields == IntFields \cup FloatFields

\* row[k] || "0": a column the row lacks (undefined) and an empty cell are
\* both falsy
OrZero(row, k) ==
    IF k \in DOMAIN row /\ row[k] # <<>> THEN row[k] ELSE <<"0">>

NormalizeRow_absentLeftOut(row) ==
    [k \in DOMAIN row |->
        IF k \in IntFields THEN parseInt(OrZero(row, k))
        ELSE IF k \in FloatFields THEN parseFloat(OrZero(row, k))
        ELSE Str(row[k])]

\* ({...row, Sent: parseInt(...), ..., "Delivery Rate": parseFloat(...)})
NormalizeRow(row) ==
    [k \in (DOMAIN row) \cup MetricFields |->
        IF k \in IntFields THEN parseInt(OrZero(row, k))
        ELSE IF k \in FloatFields THEN parseFloat(OrZero(row, k))
        ELSE Str(row[k])]

\* results.data.map(...): a fresh array of fresh row objects; oid is the
\* identity of the row object (dataset number, position)
parsedData(results, gen) ==
    [i \in 1..Len(results) |-> [oid |-> <<gen, i>>, f |-> NormalizeRow(results[i])]]

-----------------------------------------------------------------------------
(* Filter Engine: applyFilters, lines 164-207 *)

Null == <<0, 0>>

EmptyInsight == [text |-> "", req |-> Null]

\* setAiInsight(undefined)
UndefinedInsight == [text |-> "undefined", req |-> Null]

\* {aiInsight && (...)}, line 533: "" and undefined render nothing
insightShown(ins) == ins.text \notin {"", "undefined"}

nameMatches(email, term) ==
    /\ "Email Name" \in DOMAIN email.f
    /\ email.f["Email Name"].s # <<>>
    /\ includes(toLowerCase(email.f["Email Name"].s), toLowerCase(term))

currentFilteredData_exclusive(data, term, minOR, maxOR, minCR, maxCR) ==
    LET minO == parseFloat(minOR)
        maxO == parseFloat(maxOR)
        minC == parseFloat(minCR)
        maxC == parseFloat(maxCR)
        P1(e) == nameMatches(e, term)
        P2(e) == e.f["Open Rate"].t = "num" /\ e.f["Open Rate"].n > minO.n
        P3(e) == Lte(e.f["Open Rate"], maxO)
        P4(e) == Gte(e.f["Click Rate"], minC)
        P5(e) == Lte(e.f["Click Rate"], maxC)
        d1 == IF term # <<>> THEN SelectSeq(data, P1) ELSE data
        d2 == IF ~isNaN(minO) THEN SelectSeq(d1, P2) ELSE d1
        d3 == IF ~isNaN(maxO) THEN SelectSeq(d2, P3) ELSE d2
        d4 == IF ~isNaN(minC) THEN SelectSeq(d3, P4) ELSE d3
        d5 == IF ~isNaN(maxC) THEN SelectSeq(d4, P5) ELSE d4
    IN  d5

currentFilteredData_nanAsZero(data, term, minOR, maxOR, minCR, maxCR) ==
    LET minO == Num(parseFloat(minOR).n)
        maxO == Num(parseFloat(maxOR).n)
        minC == Num(parseFloat(minCR).n)
        maxC == Num(parseFloat(maxCR).n)
        P1(e) == nameMatches(e, term)
        P2(e) == Gte(e.f["Open Rate"], minO)
        P3(e) == Lte(e.f["Open Rate"], maxO)
        P4(e) == Gte(e.f["Click Rate"], minC)
        P5(e) == Lte(e.f["Click Rate"], maxC)
        d1 == IF term # <<>> THEN SelectSeq(data, P1) ELSE data
        d2 == SelectSeq(d1, P2)
        d3 == SelectSeq(d2, P3)
        d4 == SelectSeq(d3, P4)
        d5 == SelectSeq(d4, P5)
    IN  d5

\* the value of currentFilteredData at line 204: five passes, each over the
\* result of the one before
currentFilteredData(data, term, minOR, maxOR, minCR, maxCR) ==
    LET minO == parseFloat(minOR)
        maxO == parseFloat(maxOR)
        minC == parseFloat(minCR)
        maxC == parseFloat(maxCR)
        P1(e) == nameMatches(e, term)
        P2(e) == Gte(e.f["Open Rate"], minO)
        P3(e) == Lte(e.f["Open Rate"], maxO)
        P4(e) == Gte(e.f["Click Rate"], minC)
        P5(e) == Lte(e.f["Click Rate"], maxC)
        d1 == IF term # <<>> THEN SelectSeq(data, P1) ELSE data
        d2 == IF ~isNaN(minO) THEN SelectSeq(d1, P2) ELSE d1
        d3 == IF ~isNaN(maxO) THEN SelectSeq(d2, P3) ELSE d2
        d4 == IF ~isNaN(minC) THEN SelectSeq(d3, P4) ELSE d3
        d5 == IF ~isNaN(maxC) THEN SelectSeq(d4, P5) ELSE d4
    IN  d5

applyFilters_keepsSelection(data, term, minOR, maxOR, minCR, maxCR) ==
    /\ filteredEmailData' =
           currentFilteredData(data, term, minOR, maxOR, minCR, maxCR)
    /\ UNCHANGED selectedEmail
    /\ aiInsight' = EmptyInsight

applyFilters_keepsInsight(data, term, minOR, maxOR, minCR, maxCR) ==
    /\ filteredEmailData' =
           currentFilteredData(data, term, minOR, maxOR, minCR, maxCR)
    /\ selectedEmail' = Null
    /\ UNCHANGED aiInsight

\* applyFilters as the effect of lines 97-106 runs it: on the emailData and
\* the filter inputs of the render that follows the change
applyFilters(data, term, minOR, maxOR, minCR, maxCR) ==
    /\ filteredEmailData' =
           currentFilteredData(data, term, minOR, maxOR, minCR, maxCR)
    /\ selectedEmail' = Null
    /\ aiInsight' = EmptyInsight

-----------------------------------------------------------------------------
(* Inputs *)

\* results.data of Papa.parse(file, {header: true, skipEmptyLines: true}):
\* one object per data line, keyed by the header line, every value a string
FileA == <<
    [c \in {"Email Name", "Sent", "Open Rate", "Click Rate"} |->
        CASE c = "Email Name" -> <<"P", "r", "o">>
          [] c = "Sent" -> <<"1", "0">>
          [] c = "Open Rate" -> <<"2", "5", ".", "5">>
          [] c = "Click Rate" -> <<"5">>],
    [c \in {"Email Name", "Sent", "Open Rate", "Click Rate"} |->
        CASE c = "Email Name" -> <<"n", "e", "w">>
          [] c = "Sent" -> <<>>
          [] c = "Open Rate" -> <<"a", "b">>
          [] c = "Click Rate" -> <<"2">>] >>

\* a header line and no data line
FileEmpty == << >>

SampleFiles == {FileA, FileEmpty}

\* what the user can type in the name search box
SearchTerms == {<<>>, <<"P", "R">>, <<"e", "w">>}

\* e.target.value of the four type="number" inputs: "" or a number
MinOpenInputs == {<<>>, <<"2", "5", ".", "5">>}
MaxOpenInputs == {<<>>, <<"2", "5", ".", "5">>}
MinClickInputs == {<<>>, <<"5">>}
MaxClickInputs == {<<>>, <<"2">>}

\* The outcome of one outbound request: whether fetch and response.json()
\* resolve, and the shape of the parsed body.  candidates and parts are the
\* array lengths, -1 when the property is missing.
Body(c, hasContent, p, hasText) ==
    [fetch |-> "ok", json |-> "ok", candidates |-> c, content |-> hasContent,
     parts |-> p, text |-> hasText]

WellFormed == Body(1, TRUE, 1, TRUE)
EmptyCandidates == Body(0, FALSE, -1, FALSE)
NoCandidates == Body(-1, FALSE, -1, FALSE)
EmptyParts == Body(1, TRUE, 0, FALSE)
NoText == Body(1, TRUE, 1, FALSE)
NetworkError == [Body(-1, FALSE, -1, FALSE) EXCEPT !.fetch = "reject", !.json = "none"]
NonJsonBody == [Body(-1, FALSE, -1, FALSE) EXCEPT !.json = "reject"]

Outcomes == {WellFormed, EmptyCandidates, NoCandidates, EmptyParts, NoText,
             NetworkError, NonJsonBody}

-----------------------------------------------------------------------------
(* Messages *)

AlertScriptFailed == "Failed to load PapaParse library."
AlertStillLoading == "PapaParse library is still loading."
AlertParseError == "Error parsing CSV file"
AlertSelectFirst == "Please select an email row from the table first to get insights."

TextGenerated == "result.candidates[0].content.parts[0].text"
TextUnexpected == "Failed to get insights. Unexpected response from AI."
TextError == "Error generating insights. Please try again."

-----------------------------------------------------------------------------
(* Init: the useState initial values, after the mount effect of lines 65-94
   has either found Papa defined or appended the script element *)

Init ==
    /\ scriptPending \in BOOLEAN
    /\ isPapaParseLoaded = ~scriptPending
    /\ emailData = <<>>
    /\ uploads = 0
    /\ filteredEmailData = <<>>
    /\ searchTerm = <<>>
    /\ minOpenRate = <<>>
    /\ maxOpenRate = <<>>
    /\ minClickRate = <<>>
    /\ maxClickRate = <<>>
    /\ selectedEmail = Null
    /\ aiInsight = EmptyInsight
    /\ loadingInsight = FALSE
    /\ alert = ""
    /\ parsing = <<>>
    /\ inflight = <<>>

dataVars == <<emailData, uploads, filteredEmailData>>
RemoveAt(s, i) == SubSeq(s, 1, i - 1) \o SubSeq(s, i + 1, Len(s))
filterVars == <<searchTerm, minOpenRate, maxOpenRate, minClickRate, maxClickRate>>
insightVars == <<selectedEmail, aiInsight, loadingInsight, inflight>>
scriptVars == <<isPapaParseLoaded, scriptPending>>

-----------------------------------------------------------------------------
(* Loading the CSV parser, lines 76-85 *)

\* script.onload
ScriptOnload ==
    /\ scriptPending
    /\ scriptPending' = FALSE
    /\ isPapaParseLoaded' = TRUE
    /\ UNCHANGED <<dataVars, filterVars, insightVars, alert, parsing>>

\* script.onerror
ScriptOnerror ==
    /\ scriptPending
    /\ scriptPending' = FALSE
    /\ alert' = AlertScriptFailed
    /\ UNCHANGED <<isPapaParseLoaded, dataVars, filterVars, insightVars, parsing>>

\* the OK button of the alert modal, lines 59-61
AlertClose ==
    /\ alert # ""
    /\ alert' = ""
    /\ UNCHANGED <<scriptVars, dataVars, filterVars, insightVars, parsing>>

-----------------------------------------------------------------------------
(* Upload, lines 112-159.  The file input is rendered only once the parser
   is loaded (line 343).  Papa.parse reads the file asynchronously and then
   calls complete or error. *)

\* handleFileUpload with the parser loaded: Papa.parse(file, {...})
HandleFileUpload(results) ==
    /\ isPapaParseLoaded
    /\ Len(parsing) < MaxParsing
    /\ parsing' = Append(parsing, results)
    /\ UNCHANGED <<scriptVars, dataVars, filterVars, insightVars, alert>>

\* complete: (results) => {...}, followed by the applyFilters effect that
\* the new emailData array triggers.  It overwrites the callback's own
\* setFilteredEmailData(parsedData), setSelectedEmail(null), setAiInsight("").
HandleFileUploadComplete(i) ==
    /\ i \in 1..Len(parsing)
    /\ uploads < MaxUploads
    /\ uploads' = uploads + 1
    /\ emailData' = parsedData(parsing[i], uploads + 1)
    /\ applyFilters(parsedData(parsing[i], uploads + 1), searchTerm,
                    minOpenRate, maxOpenRate, minClickRate, maxClickRate)
    /\ parsing' = RemoveAt(parsing, i)
    /\ UNCHANGED <<scriptVars, filterVars, loadingInsight, inflight, alert>>

HandleFileUploadError_dropsData(i) ==
    /\ i \in 1..Len(parsing)
    /\ alert' = AlertParseError
    /\ parsing' = RemoveAt(parsing, i)
    /\ emailData' = <<>>
    /\ filteredEmailData' = <<>>
    /\ UNCHANGED <<scriptVars, uploads, filterVars, insightVars>>

\* error: (error) => {...}
HandleFileUploadError(i) ==
    /\ i \in 1..Len(parsing)
    /\ alert' = AlertParseError
    /\ parsing' = RemoveAt(parsing, i)
    /\ UNCHANGED <<scriptVars, dataVars, filterVars, insightVars>>

\* handleFileUpload called before the parser is loaded, lines 116-121
HandleFileUploadNotLoaded ==
    /\ ~isPapaParseLoaded
    /\ alert' = AlertStillLoading
    /\ UNCHANGED <<scriptVars, dataVars, filterVars, insightVars, parsing>>

-----------------------------------------------------------------------------
(* Filter inputs, lines 391-446, rendered when emailData.length > 0 (line
   369).  Each onChange sets one input; the effect of lines 97-106 then runs
   applyFilters when the value differs from the one before. *)

SetSearchTerm(v) ==
    /\ Len(emailData) > 0
    /\ v # searchTerm
    /\ searchTerm' = v
    /\ applyFilters(emailData, v, minOpenRate, maxOpenRate,
                    minClickRate, maxClickRate)
    /\ UNCHANGED <<scriptVars, emailData, uploads, minOpenRate, maxOpenRate,
                   minClickRate, maxClickRate, loadingInsight, inflight, alert, parsing>>

SetMinOpenRate(v) ==
    /\ Len(emailData) > 0
    /\ v # minOpenRate
    /\ minOpenRate' = v
    /\ applyFilters(emailData, searchTerm, v, maxOpenRate,
                    minClickRate, maxClickRate)
    /\ UNCHANGED <<scriptVars, emailData, uploads, searchTerm, maxOpenRate,
                   minClickRate, maxClickRate, loadingInsight, inflight, alert, parsing>>

SetMaxOpenRate(v) ==
    /\ Len(emailData) > 0
    /\ v # maxOpenRate
    /\ maxOpenRate' = v
    /\ applyFilters(emailData, searchTerm, minOpenRate, v,
                    minClickRate, maxClickRate)
    /\ UNCHANGED <<scriptVars, emailData, uploads, searchTerm, minOpenRate,
                   minClickRate, maxClickRate, loadingInsight, inflight, alert, parsing>>

SetMinClickRate(v) ==
    /\ Len(emailData) > 0
    /\ v # minClickRate
    /\ minClickRate' = v
    /\ applyFilters(emailData, searchTerm, minOpenRate, maxOpenRate,
                    v, maxClickRate)
    /\ UNCHANGED <<scriptVars, emailData, uploads, searchTerm, minOpenRate,
                   maxOpenRate, maxClickRate, loadingInsight, inflight, alert, parsing>>

SetMaxClickRate(v) ==
    /\ Len(emailData) > 0
    /\ v # maxClickRate
    /\ maxClickRate' = v
    /\ applyFilters(emailData, searchTerm, minOpenRate, maxOpenRate,
                    minClickRate, v)
    /\ UNCHANGED <<scriptVars, emailData, uploads, searchTerm, minOpenRate,
                   maxOpenRate, minClickRate, loadingInsight, inflight, alert, parsing>>

-----------------------------------------------------------------------------
(* Selection, lines 213-216; the rows of the table are those of
   filteredEmailData, lines 476-486 *)

handleRowClick_keepsInsight(row) ==
    /\ selectedEmail' = row.oid
    /\ UNCHANGED <<scriptVars, dataVars, filterVars, aiInsight, loadingInsight,
                   inflight, alert, parsing>>

handleRowClick(row) ==
    /\ selectedEmail' = row.oid
    /\ aiInsight' = EmptyInsight
    /\ UNCHANGED <<scriptVars, dataVars, filterVars, loadingInsight, inflight,
                   alert, parsing>>

RowClick ==
    /\ Len(emailData) > 0
    /\ \E i \in 1..Len(filteredEmailData) : handleRowClick(filteredEmailData[i])

-----------------------------------------------------------------------------
(* Insight, lines 221-285 *)

GetAiInsightsNoSelection_entersLoading ==
    /\ selectedEmail = Null
    /\ alert' = AlertSelectFirst
    /\ loadingInsight' = TRUE
    /\ UNCHANGED <<scriptVars, dataVars, filterVars, selectedEmail, aiInsight,
                   inflight, parsing>>

\* if (!selectedEmail) { showCustomAlert(...); return; }
GetAiInsightsNoSelection ==
    /\ selectedEmail = Null
    /\ alert' = AlertSelectFirst
    /\ UNCHANGED <<scriptVars, dataVars, filterVars, insightVars, parsing>>

\* lines 229-258: up to the first await.  The prompt is built from the row
\* selected now; outcome is what the network will answer.
GetAiInsightsRequest(outcome) ==
    /\ selectedEmail # Null
    /\ loadingInsight' = TRUE
    /\ aiInsight' = EmptyInsight
    /\ inflight' = Append(inflight, [rec |-> selectedEmail, resp |-> outcome])
    /\ UNCHANGED <<scriptVars, dataVars, filterVars, selectedEmail, alert, parsing>>

\* the condition of lines 266-272
hasValidContent(result) ==
    /\ result.candidates >= 0
    /\ result.candidates > 0
    /\ result.content
    /\ result.parts >= 0
    /\ result.parts > 0

\* the value given to setAiInsight at line 274, 276 or 281, with the row the
\* request was built from
insightOf(req) ==
    IF req.resp.fetch = "reject" \/ req.resp.json = "reject"
    THEN [text |-> TextError, req |-> req.rec]
    ELSE IF hasValidContent(req.resp)
         THEN IF req.resp.text
              THEN [text |-> TextGenerated, req |-> req.rec]
              ELSE UndefinedInsight
         ELSE [text |-> TextUnexpected, req |-> req.rec]

GetAiInsightsResume_noFinally(i) ==
    /\ i \in 1..Len(inflight)
    /\ aiInsight' = insightOf(inflight[i])
    /\ loadingInsight' = (loadingInsight /\ aiInsight'.text # TextGenerated)
    /\ inflight' = RemoveAt(inflight, i)
    /\ UNCHANGED <<scriptVars, dataVars, filterVars, selectedEmail, alert, parsing>>

GetAiInsightsResume_retries(i) ==
    /\ i \in 1..Len(inflight)
    /\ aiInsight' = insightOf(inflight[i])
    /\ loadingInsight' = FALSE
    /\ IF insightOf(inflight[i]).text = TextError
       THEN \E outcome \in Outcomes :
               inflight' = Append(RemoveAt(inflight, i),
                                  [rec |-> inflight[i].rec, resp |-> outcome])
       ELSE inflight' = RemoveAt(inflight, i)
    /\ UNCHANGED <<scriptVars, dataVars, filterVars, selectedEmail, alert, parsing>>

\* lines 258-284: the rest of the call once its request is answered
GetAiInsightsResume(i) ==
    /\ i \in 1..Len(inflight)
    /\ aiInsight' = insightOf(inflight[i])
    /\ loadingInsight' = FALSE
    /\ inflight' = RemoveAt(inflight, i)
    /\ UNCHANGED <<scriptVars, dataVars, filterVars, selectedEmail, alert, parsing>>

insightButtonDisabled_ignoresLoading == selectedEmail = Null

\* disabled={!selectedEmail || loadingInsight}, line 526
insightButtonDisabled == selectedEmail = Null \/ loadingInsight

\* onClick={getAiInsights}, line 519
InsightButtonClick ==
    /\ Len(emailData) > 0
    /\ ~insightButtonDisabled
    /\ \E outcome \in Outcomes : GetAiInsightsRequest(outcome)

-----------------------------------------------------------------------------
(* The component driven through its rendered controls *)

Next ==
    \/ ScriptOnload
    \/ ScriptOnerror
    \/ AlertClose
    \/ \E results \in SampleFiles : HandleFileUpload(results)
    \/ \E i \in 1..Len(parsing) : HandleFileUploadComplete(i)
    \/ \E i \in 1..Len(parsing) : HandleFileUploadError(i)
    \/ \E v \in SearchTerms : SetSearchTerm(v)
    \/ \E v \in MinOpenInputs : SetMinOpenRate(v)
    \/ \E v \in MaxOpenInputs : SetMaxOpenRate(v)
    \/ \E v \in MinClickInputs : SetMinClickRate(v)
    \/ \E v \in MaxClickInputs : SetMaxClickRate(v)
    \/ RowClick
    \/ InsightButtonClick
    \/ \E i \in 1..Len(inflight) : GetAiInsightsResume(i)

Spec == Init /\ [][Next]_vars

(* The handlers called directly, whatever the rendered controls allow:
   handleFileUpload before the parser is loaded, getAiInsights with nothing
   selected or while a request is out.  The filter inputs stay empty. *)

NextApi ==
    \/ ScriptOnload
    \/ AlertClose
    \/ HandleFileUploadNotLoaded
    \/ \E results \in SampleFiles : HandleFileUpload(results)
    \/ \E i \in 1..Len(parsing) : HandleFileUploadComplete(i)
    \/ RowClick
    \/ GetAiInsightsNoSelection
    \/ \E outcome \in Outcomes :
          Len(inflight) < MaxInflight /\ GetAiInsightsRequest(outcome)
    \/ \E i \in 1..Len(inflight) : GetAiInsightsResume(i)

SpecApi == Init /\ [][NextApi]_vars

(* Ingestion alone: the complete callback on any one-line file *)

IngestColumns == {"Email Name", "Spam Reports"} \cup MetricFields

CellTexts == {<<>>, <<"1", "2">>, <<"-", "2", ".", "5">>, <<"a", "b">>,
              <<"1", "2", "a">>}

IngestFiles ==
    UNION {{<<row>> : row \in [h -> CellTexts]} :
              h \in {x \in SUBSET IngestColumns : Cardinality(x) <= MaxCols}}

InitIngest ==
    /\ isPapaParseLoaded = TRUE
    /\ scriptPending = FALSE
    /\ emailData = <<>>
    /\ uploads = 0
    /\ filteredEmailData = <<>>
    /\ searchTerm = <<>>
    /\ minOpenRate = <<>>
    /\ maxOpenRate = <<>>
    /\ minClickRate = <<>>
    /\ maxClickRate = <<>>
    /\ selectedEmail = Null
    /\ aiInsight = EmptyInsight
    /\ loadingInsight = FALSE
    /\ alert = ""
    /\ parsing \in {<<results>> : results \in IngestFiles}
    /\ inflight = <<>>

NextIngest == \E i \in 1..Len(parsing) : HandleFileUploadComplete(i)

SpecIngest == InitIngest /\ [][NextIngest]_vars

(* The Filter Engine alone: one dataset with rates on both sides of 0, and
   the bound inputs given any text, numeric or not *)

FileRates == <<
    [c \in {"Email Name", "Open Rate", "Click Rate"} |->
        CASE c = "Email Name" -> <<"P", "r", "o">>
          [] c = "Open Rate" -> <<"-", "1">>
          [] c = "Click Rate" -> <<"5">>],
    [c \in {"Email Name", "Open Rate", "Click Rate"} |->
        CASE c = "Email Name" -> <<"n", "e", "w">>
          [] c = "Open Rate" -> <<"2", "5", ".", "5">>
          [] c = "Click Rate" -> <<"-", "2">>] >>

BoundTexts == {<<>>, <<"a", "b">>, <<"0">>, <<"5">>}

InitFilter ==
    /\ isPapaParseLoaded = TRUE
    /\ scriptPending = FALSE
    /\ emailData = <<>>
    /\ uploads = 0
    /\ filteredEmailData = <<>>
    /\ searchTerm = <<>>
    /\ minOpenRate = <<>>
    /\ maxOpenRate = <<>>
    /\ minClickRate = <<>>
    /\ maxClickRate = <<>>
    /\ selectedEmail = Null
    /\ aiInsight = EmptyInsight
    /\ loadingInsight = FALSE
    /\ alert = ""
    /\ parsing = <<FileRates>>
    /\ inflight = <<>>

NextFilter ==
    \/ \E i \in 1..Len(parsing) : HandleFileUploadComplete(i)
    \/ \E v \in SearchTerms : SetSearchTerm(v)
    \/ \E v \in BoundTexts : SetMinOpenRate(v)
    \/ \E v \in BoundTexts : SetMaxOpenRate(v)
    \/ \E v \in BoundTexts : SetMinClickRate(v)
    \/ \E v \in BoundTexts : SetMaxClickRate(v)

SpecFilter == InitFilter /\ [][NextFilter]_vars

-----------------------------------------------------------------------------
(* Properties *)

oids(rows) == {rows[i].oid : i \in 1..Len(rows)}

\* C1: a step that replaces the Dataset (a completed upload) or changes one
\* of the five filter inputs ends with Selection empty and Insight empty.
C1_ChangeClearsSelectionAndInsight ==
    [][(uploads' # uploads \/ criteria' # criteria)
          => (selectedEmail' = Null /\ aiInsight' = EmptyInsight)]_vars

\* a filter is set, Selection and Insight are empty, and a row for which an
\* insight was requested (so one that was selected) is still in the view
C1_Witness ==
    /\ searchTerm # <<>>
    /\ selectedEmail = Null
    /\ aiInsight = EmptyInsight
    /\ \E i \in 1..Len(inflight) : inflight[i].rec \in oids(filteredEmailData)

\* C2 as stated: a shown Insight belongs to a request built from the row
\* that is selected now.
C2_InsightIsForSelection ==
    insightShown(aiInsight) => selectedEmail = aiInsight.req

\* C2 as amended: Insight is emptied by every step that changes Selection; a
\* request is built from the row selected when it is issued; and a step that
\* stores a shown Insight is the completion of an outstanding request and
\* stores it for that request's row, whatever is selected by then.
C2_InsightIsForRequestedRow ==
    [][/\ selectedEmail' # selectedEmail => aiInsight' = EmptyInsight
       /\ Len(inflight') > Len(inflight)
             => /\ selectedEmail # Null
                /\ inflight'[Len(inflight')].rec = selectedEmail
       /\ (aiInsight' # aiInsight /\ insightShown(aiInsight'))
             => \E i \in 1..Len(inflight) :
                    /\ inflight' = RemoveAt(inflight, i)
                    /\ aiInsight'.req = inflight[i].rec]_vars

\* an Insight is shown for a row while another row is selected
C2_Witness ==
    /\ insightShown(aiInsight)
    /\ selectedEmail # Null
    /\ selectedEmail # aiInsight.req

\* the conjunction of the criteria that are set, as one predicate on a row
boundSet(txt) == parseFloat(txt).t = "num"

satisfiesCriteria(e) ==
    /\ searchTerm # <<>> =>
          /\ "Email Name" \in DOMAIN e.f
          /\ includes(toLowerCase(e.f["Email Name"].s), toLowerCase(searchTerm))
    /\ boundSet(minOpenRate) =>
          (e.f["Open Rate"].t = "num" /\ e.f["Open Rate"].n >= parseFloat(minOpenRate).n)
    /\ boundSet(maxOpenRate) =>
          (e.f["Open Rate"].t = "num" /\ e.f["Open Rate"].n <= parseFloat(maxOpenRate).n)
    /\ boundSet(minClickRate) =>
          (e.f["Click Rate"].t = "num" /\ e.f["Click Rate"].n >= parseFloat(minClickRate).n)
    /\ boundSet(maxClickRate) =>
          (e.f["Click Rate"].t = "num" /\ e.f["Click Rate"].n <= parseFloat(maxClickRate).n)

\* C3: the Filtered View is the order-preserving subsequence of the current
\* Dataset made of exactly the rows that satisfy every criterion that is set.
C3_ViewIsFilteredDataset ==
    filteredEmailData = SelectSeq(emailData, satisfiesCriteria)

\* a row sits exactly on a bound that is set and is kept, another row is
\* filtered out
C3_Witness ==
    /\ boundSet(minOpenRate)
    /\ Len(filteredEmailData) > 0
    /\ Len(filteredEmailData) < Len(emailData)
    /\ \E i \in 1..Len(filteredEmailData) :
           filteredEmailData[i].f["Open Rate"] = parseFloat(minOpenRate)

\* text a reader takes for a number: digits with an optional sign, point
\* and surrounding blanks, and nothing else
numericText(txt) ==
    /\ \E i \in 1..Len(txt) : txt[i] \in Digits
    /\ \A i \in 1..Len(txt) : txt[i] \in Digits \cup {".", "-", "+", " "}

\* the step is the complete callback for the file parsing[i]
completes(i) == parsing' = RemoveAt(parsing, i) /\ uploads' # uploads

\* C4: in every Record produced by ingestion each of the nine metric fields
\* holds a number, and 0 when the source cell is empty or non-numeric text.
C4_MetricsNumericOrZero ==
    [][\A i \in 1..Len(parsing) : completes(i) =>
          \A r \in 1..Len(emailData') : \A k \in MetricFields :
             /\ k \in DOMAIN emailData'[r].f
             /\ emailData'[r].f[k].t = "num"
             /\ (k \in DOMAIN parsing[i][r] /\ ~numericText(parsing[i][r][k]))
                   => emailData'[r].f[k] = Num(0)]_vars

\* C5 as stated: a Record has exactly the fields of the header line.
C5_FieldsAreHeader ==
    [][\A i \in 1..Len(parsing) : completes(i) =>
          \A r \in 1..Len(emailData') :
             DOMAIN emailData'[r].f = DOMAIN parsing[i][r]]_vars

\* C5 as amended: a Record has the fields of the header line and the nine
\* metric fields; a metric field whose column is absent from the header is
\* in the Record with value 0, as is one whose cell is empty; the other
\* fields keep their text.
C5_FieldsAreHeaderAndMetrics ==
    [][\A i \in 1..Len(parsing) : completes(i) =>
          \A r \in 1..Len(emailData') :
             LET raw == parsing[i][r]
                 rec == emailData'[r].f
             IN  /\ DOMAIN rec = (DOMAIN raw) \cup MetricFields
                 /\ \A k \in MetricFields \ DOMAIN raw : rec[k] = Num(0)
                 /\ \A k \in MetricFields \cap DOMAIN raw :
                       raw[k] = <<>> => rec[k] = Num(0)
                 /\ \A k \in (DOMAIN raw) \ MetricFields :
                       rec[k] = Str(raw[k])]_vars

\* a Record from a header with two columns that are not metrics: all nine
\* metric fields are in it although none was in the header
C5_Witness ==
    /\ Len(emailData) = 1
    /\ DOMAIN emailData[1].f = MetricFields \cup {"Email Name", "Spam Reports"}
    /\ \A k \in MetricFields : emailData[1].f[k] = Num(0)

\* the step is the error callback of some file being parsed
parseFails == Len(parsing') < Len(parsing) /\ uploads' = uploads

\* C6: the error callback of an upload leaves Dataset, Filtered View, Filter
\* Criteria, Selection, Insight and the loading state as they were and shows
\* the parse error to the user.
C6_ParseErrorChangesNothing ==
    [][parseFails =>
          /\ UNCHANGED <<emailData, filteredEmailData, criteria,
                         selectedEmail, aiInsight, loadingInsight, inflight>>
          /\ alert' = AlertParseError]_vars

\* the error is shown over a session with data, a filter, a selection and a
\* shown insight, all still there
C6_Witness ==
    /\ alert = AlertParseError
    /\ Len(emailData) > 0
    /\ searchTerm # <<>>
    /\ selectedEmail \in oids(filteredEmailData)
    /\ insightShown(aiInsight)

\* C7: getAiInsights called with Selection empty shows the alert, sends no
\* request, does not enter the loading state and changes no state.
C7_NoSelectionChangesNothing ==
    [][(alert' = AlertSelectFirst /\ alert # AlertSelectFirst) =>
          /\ selectedEmail = Null
          /\ UNCHANGED <<scriptVars, dataVars, filterVars, insightVars, parsing>>]_vars

\* the alert is up, nothing is selected, no request is out, not loading
C7_Witness ==
    /\ alert = AlertSelectFirst
    /\ selectedEmail = Null
    /\ Len(emailData) > 0
    /\ inflight = <<>>
    /\ ~loadingInsight
    /\ aiInsight = EmptyInsight

\* C8: a step that issues a request ends in the loading state, and a step
\* that completes a request, whatever its outcome, ends out of it.
C8_LoadingEndsWithRequest ==
    [][/\ Len(inflight') > Len(inflight) => loadingInsight'
       /\ Len(inflight') < Len(inflight) => ~loadingInsight']_vars

\* a request has failed at the transport level and loading is over
C8_Witness ==
    /\ aiInsight.text = TextError
    /\ ~loadingInsight
    /\ inflight = <<>>

\* the Insight C9 expects for an outcome
expectedText(resp) ==
    IF resp.fetch = "reject" \/ resp.json = "reject" THEN TextError
    ELSE IF resp.candidates > 0 /\ resp.content /\ resp.parts > 0 /\ resp.text
         THEN TextGenerated
         ELSE TextUnexpected

\* C9: the Insight stored when a request completes is the generated text
\* for a well-formed response with a text segment, the "unexpected
\* response" text for a response missing the expected structure, and the
\* "error generating insights" text for a transport failure.
C9_InsightByOutcome ==
    [][\A i \in 1..Len(inflight) : inflight' = RemoveAt(inflight, i) =>
          aiInsight'.text = expectedText(inflight[i].resp)]_vars

\* C10: a non-empty Selection is a row of the current Filtered View, and so
\* of the current Dataset.
C10_SelectionInView ==
    selectedEmail # Null =>
        /\ selectedEmail \in oids(filteredEmailData)
        /\ selectedEmail \in oids(emailData)

\* a row of the second dataset is selected while a filter hides another row
C10_Witness ==
    /\ selectedEmail # Null
    /\ uploads = 2
    /\ Len(filteredEmailData) < Len(emailData)

\* the four numeric bounds: the input text, the field it bounds, and
\* whether it is a lower bound
BoundNames == {"minOpenRate", "maxOpenRate", "minClickRate", "maxClickRate"}

boundText(b) ==
    CASE b = "minOpenRate" -> minOpenRate
      [] b = "maxOpenRate" -> maxOpenRate
      [] b = "minClickRate" -> minClickRate
      [] b = "maxClickRate" -> maxClickRate

boundField(b) ==
    IF b \in {"minOpenRate", "maxOpenRate"} THEN "Open Rate" ELSE "Click Rate"

isLower(b) == b \in {"minOpenRate", "minClickRate"}

\* the row passes the bound b, read from its text
passesBound(e, b) ==
    LET rate == e.f[boundField(b)]
        lim == parseFloat(boundText(b))
    IN  /\ rate.t = "num"
        /\ IF isLower(b) THEN rate.n >= lim.n ELSE rate.n <= lim.n

\* the Filtered View computed with the pass of bound skip removed
viewWithout(skip) ==
    LET keep(e) ==
            /\ searchTerm # <<>> =>
                  /\ "Email Name" \in DOMAIN e.f
                  /\ includes(toLowerCase(e.f["Email Name"].s),
                              toLowerCase(searchTerm))
            /\ \A b \in BoundNames \ {skip} :
                  boundSet(boundText(b)) => passesBound(e, b)
    IN  SelectSeq(emailData, keep)

\* the Filtered View had the text of bound b been "0"
viewWithZero(b) ==
    currentFilteredData(emailData, searchTerm,
        IF b = "minOpenRate" THEN <<"0">> ELSE minOpenRate,
        IF b = "maxOpenRate" THEN <<"0">> ELSE maxOpenRate,
        IF b = "minClickRate" THEN <<"0">> ELSE minClickRate,
        IF b = "maxClickRate" THEN <<"0">> ELSE maxClickRate)

\* a row of the view has its rate on the side of 0 that the bound b, were
\* it 0, would cut off
rateBeyondZero(b) ==
    \E i \in 1..Len(filteredEmailData) :
        LET rate == filteredEmailData[i].f[boundField(b)]
        IN  /\ rate.t = "num"
            /\ IF isLower(b) THEN rate.n < 0 ELSE rate.n > 0

\* C11: for each of the four bounds, when its input is empty or does not
\* parse as a number the Filtered View is the view computed without that
\* bound's pass, and it differs from the view with the bound taken as 0
\* whenever a row of it has its rate on the other side of 0.
C11_AbsentBoundIsNoConstraint ==
    \A b \in BoundNames : ~boundSet(boundText(b)) =>
        /\ filteredEmailData = viewWithout(b)
        /\ rateBeyondZero(b) => filteredEmailData # viewWithZero(b)

\* a non-numeric lower bound and an empty upper bound, with rows in view
\* whose rates lie below and above 0
C11_Witness ==
    /\ minOpenRate = <<"a", "b">>
    /\ maxClickRate = <<>>
    /\ boundSet(maxOpenRate)
    /\ rateBeyondZero("minOpenRate")
    /\ rateBeyondZero("maxClickRate")

\* C12: at most one insight request is outstanding, and while one is the
\* loading state is true and the insight button is disabled.
C12_OneRequestOutstanding ==
    /\ Len(inflight) <= 1
    /\ inflight # <<>> => (loadingInsight /\ insightButtonDisabled)

\* a request is outstanding while, since it was issued, a filter was set
\* and another row was selected
C12_Witness ==
    /\ Len(inflight) = 1
    /\ searchTerm # <<>>
    /\ selectedEmail # Null
    /\ selectedEmail # inflight[1].rec

\* C13: a step sends at most one request and only as a valid getAiInsights
\* call, which sends exactly one, built from the selected row; the step that
\* handles a response, malformed and failed ones included, sends none.
\* Counted over a behaviour, the requests sent are as many as the valid calls.
C13_OneRequestPerCall ==
    [][/\ \/ inflight' = inflight
          \/ /\ selectedEmail # Null
             /\ \E outcome \in Outcomes :
                   inflight' = Append(inflight, [rec |-> selectedEmail,
                                                 resp |-> outcome])
          \/ \E i \in 1..Len(inflight) : inflight' = RemoveAt(inflight, i)
       /\ (~loadingInsight /\ loadingInsight')
             <=> Len(inflight') = Len(inflight) + 1]_vars

\* a malformed response has been handled for the row still selected, and no
\* request is out
C13_Witness ==
    /\ aiInsight.text = TextUnexpected
    /\ selectedEmail = aiInsight.req
    /\ inflight = <<>>
    /\ ~loadingInsight

====
